---- MODULE Spec2Model ----
(***************************************************************************)
(* Model of openhtf/exe/dutmanager.py: the DutManager facade, its four     *)
(* handlers (StubHandler, AndroidHandler, FrontendHandler,                 *)
(* FrontendAndroidHandler) and the class-level event queues guarded by     *)
(* the DEQUE_COND condition variable.                                      *)
(*                                                                         *)
(* Threads: one executor thread per DutManager ("consumer"), which calls   *)
(* WaitForTestStart / WaitForTestStop one at a time, and producer threads  *)
(* that call FrontendHandler.Enqueue at any time.                          *)
(***************************************************************************)
EXTENDS Naturals, Sequences, FiniteSets, TLC

\* ------------------------------------------------------------------ bounds
\* Total number of Enqueue calls made by all producers together.
MaxEnqueue == 3
\* Number of WaitForTestStart calls one executor thread makes.
MaxStarts == 2
\* Number of _TryOpen attempts that keep one TestStart/TestStop loop going.
MaxAttempts == 2

\* ---------------------------------------------------------------- universe
Consumers == {"c1", "c2"}
Producers == {"p1", "p2"}
\* Cell numbers (channel keys).
Cells == {1, 2}
\* Serials a frontend can enqueue; "" is Enqueue's default argument.
Serials == {"", "S1"}
\* Serial numbers of Android devices a USB probe can find.
Devices == {"X", "Y"}
\* Python's None.
None == "None"
\* conf.Declare('unknown_dut_id', ..., default_value='UNKNOWN_DUT_ID').
DefaultDutId == "UNKNOWN_DUT_ID"
DutIds == {DefaultDutId, "DUT0"}

\* HANDLERS with the classes of 'frontend' and 'frontend_serial' exchanged.
HANDLERS_Swapped ==
  [ts \in {"android", "frontend", "frontend_serial", "auto"} |->
     CASE ts = "android" -> "AndroidHandler"
       [] ts = "frontend" -> "FrontendHandler"
       [] ts = "frontend_serial" -> "FrontendAndroidHandler"
       [] ts = "auto" -> "StubHandler"]

\* DutManager.HANDLERS: test_start value -> handler class.
HANDLERS ==
  [ts \in {"android", "frontend", "frontend_serial", "auto"} |->
     CASE ts = "android" -> "AndroidHandler"
       [] ts = "frontend" -> "FrontendAndroidHandler"
       [] ts = "frontend_serial" -> "FrontendHandler"
       [] ts = "auto" -> "StubHandler"]
\* test_start values a configuration can hold: the four keys and two others.
TestStartValues == DOMAIN HANDLERS \cup {"usb", ""}

\* class FrontendAndroidHandler(FrontendHandler): the classes that inherit
\* FrontendHandler's serial, cell_number, TestStop and _WaitForFrontend.
IsFrontend(h) == h \in {"FrontendHandler", "FrontendAndroidHandler"}
\* The classes whose instance holds an AndroidHandler state (serial_number):
\* AndroidHandler itself and FrontendAndroidHandler.android_handler.
HasAndroid(h) == h \in {"AndroidHandler", "FrontendAndroidHandler"}

VARIABLES
  DEQUE_MAP,     \* FrontendHandler.DEQUE_MAP: cell number -> deque (lazy keys)
  lockOwner,     \* thread holding DEQUE_COND's lock, or None
  waiters,       \* consumers blocked in DEQUE_COND.wait(), not yet notified
  pc,            \* position of each executor thread
  op,            \* the facade call in progress or, between calls, the last one
  handler,       \* DutManager.handler: class of the owned handler, or None
  raised,        \* FromConfig raised InvalidTestStartError
  test_start,    \* history: config.test_start as given to FromConfig
  config,        \* StubHandler.config.unknown_dut_id (None for other handlers)
  cell_number,   \* FrontendHandler.cell_number
  serial,        \* FrontendHandler.serial (the stash)
  serial_number, \* AndroidHandler.serial_number (the tracked identity)
  iface,         \* _TryOpen's loop position: "adb" or "fastboot"
  handle,        \* _TryOpen's local handle: serial of the open handle, or None
  ppc,           \* position of each producer thread
  enqueued,      \* history: per cell, the serials appended by Enqueue
  removed,       \* history: per cell, the serials popped by _WaitForFrontend
  returned,      \* history: per consumer, WaitForTestStart's return values
  order,         \* history: last facade call while start/stop alternate
  probeLog       \* history: results of the _TryOpen attempts of this call

shared == <<DEQUE_MAP, lockOwner, waiters>>
mgr == <<handler, raised, test_start, config, cell_number>>
fe == <<serial>>
android == <<serial_number, iface, handle, probeLog>>
hist == <<enqueued, removed>>
vars == <<DEQUE_MAP, lockOwner, waiters, pc, op, handler, raised, test_start, config,
          cell_number, serial, serial_number, iface, handle, ppc, enqueued,
          removed, returned, order, probeLog>>

\* ----------------------------------------------------------------- helpers
\* collections.defaultdict(collections.deque): reading a missing key creates
\* it with an empty deque.
Touch(m, k) == IF k \in DOMAIN m THEN m ELSE m @@ (k :> <<>>)

Last(s) == s[Len(s)]

IsPrefix(s, t) == Len(s) <= Len(t) /\ SubSeq(t, 1, Len(s)) = s

\* History of the facade calls: the last call as long as the calls strictly
\* alternate start, stop, start, ...; "free" once they did not.
NextOrder(o, call) ==
  IF o = "free" THEN "free"
  ELSE IF (call = "start" /\ o \in {"none", "stop"}) \/ (call = "stop" /\ o = "start")
       THEN call
       ELSE "free"

TotalEnqueued == Len(enqueued[1]) + Len(enqueued[2])

\* ------------------------------------------------------------ construction
\* The state before any DutManager exists; the executor threads in `threads`
\* are the ones that will run.
InitWith(threads) ==
  /\ DEQUE_MAP = <<>>
  /\ lockOwner = None
  /\ waiters = {}
  /\ pc = [c \in Consumers |-> IF c \in threads THEN "new" ELSE "absent"]
  /\ op = [c \in Consumers |-> None]
  /\ handler = [c \in Consumers |-> None]
  /\ raised = [c \in Consumers |-> FALSE]
  /\ test_start = [c \in Consumers |-> None]
  /\ config = [c \in Consumers |-> None]
  /\ cell_number = [c \in Consumers |-> None]
  /\ serial = [c \in Consumers |-> None]
  /\ serial_number = [c \in Consumers |-> None]
  /\ iface = [c \in Consumers |-> "adb"]
  /\ handle = [c \in Consumers |-> None]
  /\ ppc = [p \in Producers |-> "idle"]
  /\ enqueued = [k \in Cells |-> <<>>]
  /\ removed = [k \in Cells |-> <<>>]
  /\ returned = [c \in Consumers |-> <<>>]
  /\ order = [c \in Consumers |-> "none"]
  /\ probeLog = [c \in Consumers |-> <<>>]

\* FromConfig falling back to the default 'auto' for an unknown test_start
\* in place of raising.
ConstructDefaulting(c, cell, ts, dut_id) ==
  LET cls == IF ts \in DOMAIN HANDLERS THEN HANDLERS[ts] ELSE HANDLERS["auto"]
  IN /\ test_start' = [test_start EXCEPT ![c] = ts]
     /\ handler' = [handler EXCEPT ![c] = cls]
     /\ config' = [config EXCEPT ![c] = IF cls = "StubHandler" THEN dut_id ELSE None]
     /\ cell_number' = [cell_number EXCEPT ![c] = IF IsFrontend(cls) THEN cell ELSE None]
     /\ serial' = [serial EXCEPT ![c] = None]
     /\ serial_number' = [serial_number EXCEPT ![c] = None]
     /\ pc' = [pc EXCEPT ![c] = "idle"]
     /\ UNCHANGED raised

\* DutManager.FromConfig(cell_number, config) followed by DutManager.__init__
\* and the handler's __init__.
Construct(c, cell, ts, dut_id) ==
  IF ts \notin DOMAIN HANDLERS
  THEN /\ test_start' = [test_start EXCEPT ![c] = ts]
       /\ raised' = [raised EXCEPT ![c] = TRUE]
       /\ pc' = [pc EXCEPT ![c] = "failed"]
       /\ UNCHANGED <<handler, config, cell_number, serial, serial_number>>
  ELSE /\ test_start' = [test_start EXCEPT ![c] = ts]
       /\ handler' = [handler EXCEPT ![c] = HANDLERS[ts]]
       /\ config' = [config EXCEPT ![c] =
                       IF HANDLERS[ts] = "StubHandler" THEN dut_id ELSE None]
       /\ cell_number' = [cell_number EXCEPT ![c] =
                            IF IsFrontend(HANDLERS[ts]) THEN cell ELSE None]
       /\ serial' = [serial EXCEPT ![c] = None]
       /\ serial_number' = [serial_number EXCEPT ![c] = None]
       /\ pc' = [pc EXCEPT ![c] = "idle"]
       /\ UNCHANGED raised

FromConfig(c) ==
  /\ pc[c] = "new"
  /\ \E cell \in Cells, ts \in TestStartValues, dut_id \in DutIds :
       Construct(c, cell, ts, dut_id)
  /\ UNCHANGED <<shared, op, iface, handle, ppc, hist, returned, order, probeLog>>

\* ------------------------------------------------------------- the facade
\* DutManager.WaitForTestStart / WaitForTestStop: the executor thread of c is
\* between calls and its manager owns a handler of class h.
CanCall(c, h) == pc[c] = "idle" /\ handler[c] = h

CanStart(c, h) == CanCall(c, h) /\ Len(returned[c]) < MaxStarts

\* WaitForTestStart returns v to the executor.
StartReturns(c, v) ==
  /\ returned' = [returned EXCEPT ![c] = Append(@, v)]
  /\ pc' = [pc EXCEPT ![c] = "idle"]

\* WaitForTestStop returns to the executor.
StopReturns(c) ==
  /\ pc' = [pc EXCEPT ![c] = "idle"]
  /\ UNCHANGED returned

\* ------------------------------------------------------------- StubHandler
\* The declared default returned in place of the configured value.
StubValueDefault(c) == DefaultDutId

\* StubHandler.TestStart: return self.config.unknown_dut_id.
StubValue(c) == config[c]

StubTestStart(c) ==
  /\ CanStart(c, "StubHandler")
  /\ order' = [order EXCEPT ![c] = NextOrder(@, "start")]
  /\ op' = [op EXCEPT ![c] = "start"]
  /\ StartReturns(c, StubValue(c))
  /\ UNCHANGED <<shared, mgr, fe, android, ppc, hist>>

\* StubHandler.TestStop: pass.
StubTestStop(c) ==
  /\ CanCall(c, "StubHandler")
  /\ order' = [order EXCEPT ![c] = NextOrder(@, "stop")]
  /\ op' = [op EXCEPT ![c] = "stop"]
  /\ StopReturns(c)
  /\ UNCHANGED <<shared, mgr, fe, android, ppc, hist>>

\* ---------------------------------------------------------- AndroidHandler
\* local_usb.LibUsbHandle.Open(serial_number=target, ...): the outcomes of one
\* enumeration: a handle to a device (its serial number), DeviceNotFoundError
\* or MultipleInterfacesFoundError. With a target, only that device matches.
OpenOutcomes(target) ==
  {"NotFound", "Ambiguous"} \cup {d \in Devices : target = None \/ d = target}

\* android_handler.TestStart() / TestStop() begins: the first _TryOpen.
AndroidBegin(c) ==
  /\ iface' = [iface EXCEPT ![c] = "adb"]
  /\ probeLog' = [probeLog EXCEPT ![c] = <<>>]
  /\ pc' = [pc EXCEPT ![c] = "open"]

\* The loop conditions inverted.
StartLoopsInverted(found) == found
StopLoopsInverted(found) == ~found

\* TestStart's loop condition: `while not self._TryOpen()`.
StartLoops(found) == ~found
\* TestStop's loop condition: `while self._TryOpen()`.
StopLoops(found) == found

\* The bound on the attempts that keep a loop going.
MayLoop(c) == Len(probeLog[c]) < MaxAttempts

\* Whether the loop of the call in progress goes on after _TryOpen returned
\* `found`.
Loops(c, found) == IF op[c] = "start" THEN StartLoops(found) ELSE StopLoops(found)

\* _TryOpen returned to the loop of TestStart or TestStop: `probed` is the
\* serial number of the handle it opened, or "NotFound"; sn is
\* self.serial_number at that time. TestStart ends with `return
\* self.serial_number`, TestStop with `self.serial_number = None`.
AfterTryOpen(c, probed, sn) ==
  /\ probeLog' = [probeLog EXCEPT ![c] = Append(@, probed)]
  /\ IF Loops(c, probed # "NotFound")
     THEN /\ pc' = [pc EXCEPT ![c] = "sleep"]
          /\ serial_number' = [serial_number EXCEPT ![c] = sn]
          /\ UNCHANGED returned
     ELSE IF op[c] = "start"
          THEN /\ serial_number' = [serial_number EXCEPT ![c] = sn]
               /\ StartReturns(c, sn)
          ELSE /\ serial_number' = [serial_number EXCEPT ![c] = None]
               /\ StopReturns(c)

AndroidTestStart(c) ==
  /\ CanStart(c, "AndroidHandler")
  /\ order' = [order EXCEPT ![c] = NextOrder(@, "start")]
  /\ op' = [op EXCEPT ![c] = "start"]
  /\ AndroidBegin(c)
  /\ UNCHANGED <<shared, mgr, fe, serial_number, handle, ppc, hist, returned>>

AndroidTestStop(c) ==
  /\ CanCall(c, "AndroidHandler")
  /\ order' = [order EXCEPT ![c] = NextOrder(@, "stop")]
  /\ op' = [op EXCEPT ![c] = "stop"]
  /\ AndroidBegin(c)
  /\ UNCHANGED <<shared, mgr, fe, serial_number, handle, ppc, hist, returned>>

\* A finally block that never closes the handle.
ShouldCloseNever(h) == FALSE

\* The finally block's test `if handle:`.
ShouldClose(h) == h # None

\* _TryOpen's for loop after an iteration whose Open raised an exception that
\* was caught: the handle is still None, so the finally block closes nothing
\* (calling Close on None would raise AttributeError); the loop goes on with
\* the next interface, or _TryOpen returns False after the last one.
TryNext(c) ==
  IF ShouldClose(handle[c])
  THEN /\ pc' = [pc EXCEPT ![c] = "AttributeError"]
       /\ UNCHANGED <<iface, serial_number, handle, returned, probeLog>>
  ELSE IF iface[c] = "adb"
       THEN /\ iface' = [iface EXCEPT ![c] = "fastboot"]
            /\ UNCHANGED <<pc, serial_number, handle, returned, probeLog>>
       ELSE /\ Loops(c, FALSE) => MayLoop(c)
            /\ AfterTryOpen(c, "NotFound", serial_number[c])
            /\ UNCHANGED <<iface, handle>>

\* MultipleInterfacesFoundError left uncaught: it leaves _TryOpen and the
\* facade call of the executor. The finally block closes nothing.
OnAmbiguousRaises(c) ==
  /\ pc' = [pc EXCEPT ![c] = "MultipleInterfacesFoundError"]
  /\ UNCHANGED <<iface, serial_number, handle, returned, probeLog>>

\* `except usb_exceptions.DeviceNotFoundError: pass`.
OnNotFound(c) == TryNext(c)

\* `except usb_exceptions.MultipleInterfacesFoundError:` logs a warning (the
\* log is not part of the state) and goes on like DeviceNotFoundError.
OnAmbiguous(c) == TryNext(c)

\* One iteration of _TryOpen's for loop up to the finally block, for the
\* outcome o of Open on the interface iface[c]. On a handle:
\* self.serial_number = handle.serial_number, and `return True` is pending
\* behind the finally block.
OpenWith(c, o) ==
  /\ pc[c] = "open"
  /\ IF o \in Devices
     THEN /\ Loops(c, TRUE) => MayLoop(c)
          /\ handle' = [handle EXCEPT ![c] = o]
          /\ serial_number' = [serial_number EXCEPT ![c] = o]
          /\ pc' = [pc EXCEPT ![c] = "finally"]
          /\ UNCHANGED <<iface, returned, probeLog>>
     ELSE IF o = "NotFound"
          THEN OnNotFound(c)
          ELSE OnAmbiguous(c)
  /\ UNCHANGED <<shared, mgr, fe, op, ppc, hist, order>>

\* An iteration of _TryOpen's for loop with any outcome the probe can have
\* for the target self.serial_number.
Open(c) == \E o \in OpenOutcomes(serial_number[c]) : OpenWith(c, o)

\* The finally block after a successful Open: handle.Close(); then `return
\* True` reaches the loop of TestStart or TestStop.
Finally(c) ==
  /\ pc[c] = "finally"
  /\ handle' = [handle EXCEPT ![c] = IF ShouldClose(handle[c]) THEN None ELSE @]
  /\ AfterTryOpen(c, handle[c], serial_number[c])
  /\ UNCHANGED <<shared, mgr, fe, op, iface, ppc, hist, order>>

\* time.sleep(1), then the next _TryOpen.
Sleep(c) ==
  /\ pc[c] = "sleep"
  /\ iface' = [iface EXCEPT ![c] = "adb"]
  /\ pc' = [pc EXCEPT ![c] = "open"]
  /\ UNCHANGED <<shared, mgr, fe, op, serial_number, handle, ppc, hist, returned,
                 order, probeLog>>

\* --------------------------------------------------------- FrontendHandler
\* FrontendHandler.Enqueue is called: the producer reaches `with
\* cls.DEQUE_COND` and waits for the lock.
EnqueueCall(p) ==
  /\ ppc[p] = "idle"
  /\ TotalEnqueued + Cardinality({q \in Producers : ppc[q] # "idle"}) < MaxEnqueue
  /\ ppc' = [ppc EXCEPT ![p] = "acquire"]
  /\ UNCHANGED <<shared, pc, op, mgr, fe, android, hist, returned, order>>

\* The producer enters `with cls.DEQUE_COND`.
EnqueueAcquire(p) ==
  /\ ppc[p] = "acquire"
  /\ lockOwner = None
  /\ lockOwner' = p
  /\ ppc' = [ppc EXCEPT ![p] = "locked"]
  /\ UNCHANGED <<DEQUE_MAP, waiters, pc, op, mgr, fe, android, hist, returned, order>>

\* The notification left out: no waiting thread is woken.
NotifyNone(ws) == {}

\* DEQUE_COND.notifyAll(): the waiting threads that are woken.
NotifyAll(ws) == ws

\* The body of Enqueue(cell_number, serial) under the lock: append, notifyAll,
\* and the lock's release at the end of the with block.
Enqueue(p) ==
  /\ ppc[p] = "locked"
  /\ \E k \in Cells, s \in Serials :
       /\ DEQUE_MAP' = [Touch(DEQUE_MAP, k) EXCEPT ![k] = Append(@, s)]
       /\ enqueued' = [enqueued EXCEPT ![k] = Append(@, s)]
  /\ waiters' = waiters \ NotifyAll(waiters)
  /\ pc' = [c \in Consumers |-> IF c \in NotifyAll(waiters) THEN "woken" ELSE pc[c]]
  /\ lockOwner' = None
  /\ ppc' = [ppc EXCEPT ![p] = "idle"]
  /\ UNCHANGED <<op, mgr, fe, android, removed, returned, order>>

\* A TestStart of the frontend family that hands the frontend's value to the
\* executor for every handler class, without the android probe.
FrontendStartedNoProbe(c, v) ==
  /\ StartReturns(c, v)
  /\ UNCHANGED <<iface, probeLog>>

\* FrontendHandler.TestStart produced the value v. FrontendHandler returns it
\* to the executor; FrontendAndroidHandler.TestStart discards it and goes on
\* with self.android_handler.TestStart().
FrontendStarted(c, v) ==
  IF handler[c] = "FrontendAndroidHandler"
  THEN /\ AndroidBegin(c)
       /\ UNCHANGED returned
  ELSE /\ StartReturns(c, v)
       /\ UNCHANGED <<iface, probeLog>>

\* The stash tested for truth, `if self.serial:`, which takes the empty
\* serial '' for no stash.
HasStashTruthy(c) == serial[c] \notin {None, ""}

\* A TestStart that never looks at the stash and always takes the next queue
\* entry.
HasStashNever(c) == FALSE

\* FrontendHandler.TestStart's test for a stashed serial:
\* `if self.serial is not None`.
HasStash(c) == serial[c] # None

\* FrontendHandler.TestStart, up to its return or to the `with` of
\* _WaitForFrontend:
\*   if self.serial is not None:
\*     self.serial = None
\*     return self.serial
\*   return self._WaitForFrontend()
\* The returned value is read from self.serial after the assignment.
FrontendTestStart(c, h) ==
  /\ CanStart(c, h)
  /\ order' = [order EXCEPT ![c] = NextOrder(@, "start")]
  /\ op' = [op EXCEPT ![c] = "start"]
  /\ IF HasStash(c)
     THEN /\ serial' = [serial EXCEPT ![c] = None]
          /\ FrontendStarted(c, serial'[c])
     ELSE /\ pc' = [pc EXCEPT ![c] = "acquire"]
          /\ UNCHANGED <<serial, iface, probeLog, returned>>
  /\ UNCHANGED <<shared, mgr, serial_number, handle, ppc, hist>>

\* A FrontendAndroidHandler.TestStop that delegates to
\* self.android_handler.TestStop() in place of the inherited queue wait.
FrontendTestStopProbing(c, h) ==
  /\ CanCall(c, h)
  /\ order' = [order EXCEPT ![c] = NextOrder(@, "stop")]
  /\ op' = [op EXCEPT ![c] = "stop"]
  /\ IF h = "FrontendAndroidHandler"
     THEN AndroidBegin(c)
     ELSE /\ pc' = [pc EXCEPT ![c] = "acquire"]
          /\ UNCHANGED <<iface, probeLog>>
  /\ UNCHANGED <<shared, mgr, fe, serial_number, handle, ppc, hist, returned>>

\* FrontendHandler.TestStop (inherited by FrontendAndroidHandler), up to the
\* `with` of _WaitForFrontend.
FrontendTestStop(c, h) ==
  /\ CanCall(c, h)
  /\ order' = [order EXCEPT ![c] = NextOrder(@, "stop")]
  /\ pc' = [pc EXCEPT ![c] = "acquire"]
  /\ op' = [op EXCEPT ![c] = "stop"]
  /\ UNCHANGED <<shared, mgr, fe, android, ppc, hist, returned>>

\* `if not len(...)` in place of `while not len(...)`: after wait() the
\* thread goes straight to popleft.
AfterWakePop == "pop"

\* Where _WaitForFrontend goes on once wait() has the lock again: back to the
\* test of the `while not len(...)` loop.
AfterWake == "check"

\* The consumer takes DEQUE_COND's lock: on entering `with self.DEQUE_COND`,
\* or inside wait() after it was notified.
Acquire(c) ==
  /\ pc[c] \in {"acquire", "woken"}
  /\ lockOwner = None
  /\ lockOwner' = c
  /\ pc' = [pc EXCEPT ![c] = IF pc[c] = "woken" THEN AfterWake ELSE "check"]
  /\ UNCHANGED <<DEQUE_MAP, waiters, op, mgr, fe, android, ppc, hist, returned, order>>

\* The loop condition inverted: `while len(deque)`.
MustWaitInverted(q) == Len(q) # 0

\* _WaitForFrontend's loop condition: `while not len(deque)`.
MustWait(q) == Len(q) = 0

\* The deque _WaitForFrontend reads: self.DEQUE_MAP[self.cell_number].
OwnCell(c) == cell_number[c]

\* deque.pop() in place of popleft(): the newest entry is taken.
PopRight(q) == <<q[Len(q)], SubSeq(q, 1, Len(q) - 1)>>

\* The head read without being removed (deque[0] in place of popleft()).
PopPeek(q) == <<Head(q), q>>

\* deque.popleft() on a non-empty deque: <<the value, the deque left>>.
Popleft(q) == <<Head(q), Tail(q)>>

\* A wait() that blocks without releasing the lock.
LockKeptInWait(c) == c

\* The owner of DEQUE_COND's lock once consumer c blocks in wait(): wait()
\* releases the lock.
LockInWait(c) == None

\* _WaitForFrontend with the lock held: test the deque of the own cell; wait
\* (which releases the lock) while it is empty, else popleft, leave the with
\* block and hand the value to the caller: TestStop stores it in self.serial,
\* TestStart returns it. popleft on an empty deque raises IndexError, which
\* leaves the with block and ends the executor's call.
WaitForFrontend(c) ==
  /\ pc[c] \in {"check", "pop"}
  /\ lockOwner = c
  /\ LET k == OwnCell(c)
         m == Touch(DEQUE_MAP, k)
     IN IF pc[c] = "check" /\ MustWait(m[k])
        THEN /\ DEQUE_MAP' = m
             /\ waiters' = waiters \cup {c}
             /\ pc' = [pc EXCEPT ![c] = "waiting"]
             /\ UNCHANGED <<serial, iface, probeLog, removed, returned>>
        ELSE IF m[k] = <<>>
        THEN /\ DEQUE_MAP' = m
             /\ pc' = [pc EXCEPT ![c] = "IndexError"]
             /\ UNCHANGED <<waiters, serial, iface, probeLog, removed, returned>>
        ELSE /\ DEQUE_MAP' = [m EXCEPT ![k] = Popleft(m[k])[2]]
             /\ removed' = [removed EXCEPT ![k] = Append(@, Popleft(m[k])[1])]
             /\ UNCHANGED waiters
             /\ IF op[c] = "stop"
                THEN /\ serial' = [serial EXCEPT ![c] = Popleft(m[k])[1]]
                     /\ StopReturns(c)
                     /\ UNCHANGED <<iface, probeLog>>
                ELSE /\ FrontendStarted(c, Popleft(m[k])[1])
                     /\ UNCHANGED serial
  /\ lockOwner' = IF pc'[c] = "waiting" THEN LockInWait(c) ELSE None
  /\ UNCHANGED <<mgr, op, serial_number, handle, ppc, enqueued, order>>

\* ----------------------------------------------------------- specifications
Next ==
  \/ \E c \in Consumers :
       \/ FromConfig(c)
       \/ StubTestStart(c)
       \/ StubTestStop(c)
       \/ AndroidTestStart(c)
       \/ AndroidTestStop(c)
       \/ Open(c)
       \/ Finally(c)
       \/ Sleep(c)
       \/ \E h \in {"FrontendHandler", "FrontendAndroidHandler"} :
            FrontendTestStart(c, h) \/ FrontendTestStop(c, h)
       \/ Acquire(c)
       \/ WaitForFrontend(c)
  \/ \E p \in Producers :
       EnqueueCall(p) \/ EnqueueAcquire(p) \/ Enqueue(p)

\* One test cell: one executor thread and its DutManager, and the producers.
Init == InitWith({"c1"})

Spec == Init /\ [][Next]_vars

\* The event queue alone: the executor thread of one cell, whose DutManager
\* was built by FromConfig with test_start 'frontend_serial' (FrontendHandler),
\* and the producers.
QueueInit ==
  /\ DEQUE_MAP = <<>>
  /\ lockOwner = None
  /\ waiters = {}
  /\ op = [c \in Consumers |-> None]
  /\ raised = [c \in Consumers |-> FALSE]
  /\ config = [c \in Consumers |-> None]
  /\ serial = [c \in Consumers |-> None]
  /\ serial_number = [c \in Consumers |-> None]
  /\ iface = [c \in Consumers |-> "adb"]
  /\ handle = [c \in Consumers |-> None]
  /\ ppc = [p \in Producers |-> "idle"]
  /\ enqueued = [k \in Cells |-> <<>>]
  /\ removed = [k \in Cells |-> <<>>]
  /\ returned = [c \in Consumers |-> <<>>]
  /\ order = [c \in Consumers |-> "none"]
  /\ probeLog = [c \in Consumers |-> <<>>]
  /\ pc = [c \in Consumers |-> IF c = "c1" THEN "idle" ELSE "absent"]
  /\ \E ts \in {"frontend_serial"}, cell \in Cells :
       /\ test_start = [c \in Consumers |-> IF c = "c1" THEN ts ELSE None]
       /\ handler = [c \in Consumers |-> IF c = "c1" THEN HANDLERS[ts] ELSE None]
       /\ cell_number = [c \in Consumers |-> IF c = "c1" THEN cell ELSE None]

QueueNext ==
  \/ \E c \in Consumers :
       \/ FrontendTestStart(c, "FrontendHandler")
       \/ FrontendTestStop(c, "FrontendHandler")
       \/ Acquire(c)
       \/ WaitForFrontend(c)
  \/ \E p \in Producers :
       EnqueueCall(p) \/ EnqueueAcquire(p) \/ Enqueue(p)

\* The scheduling the threads at the lock rely on: a thread that can take
\* the free lock does so eventually, and a thread that holds the lock runs on
\* to the end of its with block or to its wait().
QueueFairness ==
  /\ \A c \in Consumers : WF_vars(Acquire(c)) /\ WF_vars(WaitForFrontend(c))
  /\ \A p \in Producers : WF_vars(EnqueueAcquire(p)) /\ WF_vars(Enqueue(p))

QueueFairSpec == QueueInit /\ [][QueueNext]_vars /\ QueueFairness

\* Two executor threads racing for the event queues: each has a DutManager
\* built by FromConfig with test_start 'frontend_serial' (FrontendHandler);
\* the first is on cell 1, the second on the same cell or on the other one.
\* The steps are those of QueueNext.
RaceInit ==
  /\ DEQUE_MAP = <<>>
  /\ lockOwner = None
  /\ waiters = {}
  /\ op = [c \in Consumers |-> None]
  /\ raised = [c \in Consumers |-> FALSE]
  /\ config = [c \in Consumers |-> None]
  /\ serial = [c \in Consumers |-> None]
  /\ serial_number = [c \in Consumers |-> None]
  /\ iface = [c \in Consumers |-> "adb"]
  /\ handle = [c \in Consumers |-> None]
  /\ ppc = [p \in Producers |-> "idle"]
  /\ enqueued = [k \in Cells |-> <<>>]
  /\ removed = [k \in Cells |-> <<>>]
  /\ returned = [c \in Consumers |-> <<>>]
  /\ order = [c \in Consumers |-> "none"]
  /\ probeLog = [c \in Consumers |-> <<>>]
  /\ pc = [c \in Consumers |-> "idle"]
  /\ test_start = [c \in Consumers |-> "frontend_serial"]
  /\ handler = [c \in Consumers |-> HANDLERS["frontend_serial"]]
  /\ \E cell \in Cells :
       cell_number = [c \in Consumers |-> IF c = "c1" THEN 1 ELSE cell]

RaceSpec == RaceInit /\ [][QueueNext]_vars

\* The two executor threads of RaceInit calling only WaitForTestStop, the
\* call that takes an entry every time, with the frontend threads; the lock
\* steps are scheduled fairly.
BlockedNext ==
  \/ \E c \in Consumers :
       \/ FrontendTestStop(c, "FrontendHandler")
       \/ Acquire(c)
       \/ WaitForFrontend(c)
  \/ \E p \in Producers :
       EnqueueCall(p) \/ EnqueueAcquire(p) \/ Enqueue(p)

BlockedFairSpec == RaceInit /\ [][BlockedNext]_vars /\ QueueFairness

\* The hardware probe alone: the executor thread of one cell, whose
\* DutManager was built by FromConfig with test_start 'android'
\* (AndroidHandler). No thread touches the event queues.
AndroidInit ==
  /\ DEQUE_MAP = <<>>
  /\ lockOwner = None
  /\ waiters = {}
  /\ op = [c \in Consumers |-> None]
  /\ raised = [c \in Consumers |-> FALSE]
  /\ config = [c \in Consumers |-> None]
  /\ cell_number = [c \in Consumers |-> None]
  /\ serial = [c \in Consumers |-> None]
  /\ serial_number = [c \in Consumers |-> None]
  /\ iface = [c \in Consumers |-> "adb"]
  /\ handle = [c \in Consumers |-> None]
  /\ ppc = [p \in Producers |-> "idle"]
  /\ enqueued = [k \in Cells |-> <<>>]
  /\ removed = [k \in Cells |-> <<>>]
  /\ returned = [c \in Consumers |-> <<>>]
  /\ order = [c \in Consumers |-> "none"]
  /\ probeLog = [c \in Consumers |-> <<>>]
  /\ pc = [c \in Consumers |-> IF c = "c1" THEN "idle" ELSE "absent"]
  /\ test_start = [c \in Consumers |-> IF c = "c1" THEN "android" ELSE None]
  /\ handler = [c \in Consumers |-> IF c = "c1" THEN HANDLERS["android"] ELSE None]

AndroidNext ==
  \E c \in Consumers :
    \/ AndroidTestStart(c)
    \/ AndroidTestStop(c)
    \/ Open(c)
    \/ Finally(c)
    \/ Sleep(c)

\* The executor thread keeps running: a probe that can be made is made, a
\* finally block ends, a sleep ends.
AndroidFairness ==
  \A c \in Consumers : WF_vars(Open(c)) /\ WF_vars(Finally(c)) /\ WF_vars(Sleep(c))

AndroidFairSpec == AndroidInit /\ [][AndroidNext]_vars /\ AndroidFairness

\* ------------------------------------------------------------------ claims
\* The deque of cell k as a sequence (empty while the key does not exist).
Queue(k) == IF k \in DOMAIN DEQUE_MAP THEN DEQUE_MAP[k] ELSE <<>>

\* The executor of c made one more WaitForTestStart return in this step.
StartReturned(c) == Len(returned'[c]) = Len(returned[c]) + 1

\* The consumer is inside _WaitForFrontend, called from the facade call o.
InQueueWait(c, o) ==
  /\ IsFrontend(handler[c])
  /\ op[c] = o
  /\ pc[c] \in {"acquire", "check", "waiting", "woken", "pop"}

\* C1: stash law of FrontendHandler. When TestStop has stored the serial s it
\* consumed, the next TestStart returns exactly s, consumes no queue entry
\* and leaves the stash empty.
C1_StashLaw ==
  [][\A c \in Consumers :
       (handler[c] = "FrontendHandler" /\ pc[c] = "idle" /\ serial[c] # None
          /\ StartReturned(c))
       => /\ Last(returned'[c]) = serial[c]
          /\ serial'[c] = None
          /\ removed' = removed]_vars

\* C2: one consumer of a cell that alternates TestStart and TestStop
\* observes, through TestStart's return values followed by the serial still
\* stashed, exactly the serials taken from its cell's deque, which are the
\* first serials enqueued on the cell, in enqueue order.
C2_ObservedInOrder ==
  \A c \in Consumers :
    (handler[c] = "FrontendHandler" /\ pc[c] = "idle" /\ order[c] # "free")
    => /\ returned[c] \o (IF serial[c] # None THEN <<serial[c]>> ELSE <<>>)
            = removed[cell_number[c]]
       /\ IsPrefix(removed[cell_number[c]], enqueued[cell_number[c]])

\* C3: blocking and cell isolation. A TestStart that waits in
\* _WaitForFrontend leaves the wait only by its own step, taken while the
\* deque of its own cell holds an entry that some Enqueue on that cell put
\* there; no Enqueue step, on its own or on another cell, ends the wait.
C3_BlockedUntilOwnEnqueue ==
  [][\A c \in Consumers :
       (InQueueWait(c, "start") /\ ~InQueueWait(c, "start")')
       => /\ Queue(cell_number[c]) # <<>>
          /\ enqueued[cell_number[c]] # <<>>
          /\ lockOwner = c
          /\ enqueued' = enqueued]_vars

\* C3's case: a TestStart woken by an Enqueue on another cell while nothing
\* was ever enqueued on its own cell.
C3_Witness ==
  \E c \in Consumers :
    /\ InQueueWait(c, "start")
    /\ pc[c] = "woken"
    /\ enqueued[cell_number[c]] = <<>>
    /\ \E j \in Cells \ {cell_number[c]} : enqueued[j] # <<>>

\* C4: no lost wakeup. Whenever the consumer of a cell is inside
\* _WaitForFrontend (for TestStart or TestStop) and the deque of its cell
\* holds an entry, whether the entry came before or after the consumer began
\* to wait, the consumer eventually leaves the wait.
C4_NoLostWakeup ==
  \A c \in Consumers :
    ((InQueueWait(c, "start") \/ InQueueWait(c, "stop")) /\ Queue(cell_number[c]) # <<>>)
      ~> ~(InQueueWait(c, "start") \/ InQueueWait(c, "stop"))

\* C4's case: the consumer was waiting when the Enqueue on its cell came.
C4_Witness ==
  \E c \in Consumers :
    /\ InQueueWait(c, "stop")
    /\ pc[c] = "woken"
    /\ Queue(cell_number[c]) # <<>>

\* C5: per-cell FIFO and routing. In every state, for every cell, the serials
\* popped so far followed by the serials still in the cell's deque are exactly
\* the serials enqueued on that cell, in arrival order: what was popped is a
\* prefix of what was enqueued there, nothing enqueued on another cell shows
\* up, and an Enqueue on another cell changes neither.
C5_FifoPerCell ==
  \A k \in Cells :
    /\ removed[k] \o Queue(k) = enqueued[k]
    /\ IsPrefix(removed[k], enqueued[k])

\* C5's case: a cell that got two different serials, the first already popped,
\* while the other cell got serials too.
C5_Witness ==
  \E k \in Cells :
    /\ Len(enqueued[k]) >= 2
    /\ enqueued[k][1] # enqueued[k][2]
    /\ Len(removed[k]) >= 1
    /\ \E j \in Cells \ {k} : enqueued[j] # <<>>

\* C6: FromConfig builds the handler class declared for the test_start value
\* it was given: 'android' -> AndroidHandler, 'frontend' ->
\* FrontendAndroidHandler, 'frontend_serial' -> FrontendHandler, 'auto' ->
\* StubHandler; the manager holds that one handler in every later state.
C6_DeclaredMapping ==
  \A c \in Consumers :
    /\ test_start[c] = "android" => handler[c] = "AndroidHandler"
    /\ test_start[c] = "frontend" => handler[c] = "FrontendAndroidHandler"
    /\ test_start[c] = "frontend_serial" => handler[c] = "FrontendHandler"
    /\ test_start[c] = "auto" => handler[c] = "StubHandler"
    /\ handler[c] # None
         => test_start[c] \in {"android", "frontend", "frontend_serial", "auto"}

\* C6's case: a manager built for 'frontend' that has since served a call.
C6_Witness ==
  \E c \in Consumers :
    /\ test_start[c] = "frontend"
    /\ handler[c] = "FrontendAndroidHandler"
    /\ Len(returned[c]) >= 1

\* C7: for a test_start value outside the four supported ones FromConfig
\* raises InvalidTestStartError in the call itself: no handler and no manager
\* exist afterwards, the thread makes no facade call, and the step that raises
\* leaves the event-queue registry and its condition variable unchanged.
C7_InvalidTestStart ==
  /\ [](\A c \in Consumers :
          (test_start[c] \notin {None, "android", "frontend", "frontend_serial", "auto"})
          => /\ raised[c]
             /\ pc[c] = "failed"
             /\ handler[c] = None
             /\ cell_number[c] = None /\ config[c] = None
             /\ op[c] = None /\ returned[c] = <<>>)
  /\ [][\A c \in Consumers :
          (pc[c] = "new" /\ pc'[c] # "new"
             /\ test_start'[c] \notin {"android", "frontend", "frontend_serial", "auto"})
          => /\ raised'[c]
             /\ UNCHANGED <<DEQUE_MAP, lockOwner, waiters, enqueued, removed>>]_vars

\* C7's case: FromConfig has raised for a thread while the registry already
\* held an entry.
C7_Witness ==
  \E c \in Consumers :
    /\ raised[c]
    /\ test_start[c] = "usb"
    /\ \E k \in Cells : Queue(k) # <<>>

\* C8: a StubHandler never blocks and every WaitForTestStart returned the
\* configured unknown_dut_id, whatever the sequence of calls; it never waits
\* on the queue, holds its lock, pops an entry, creates a deque or opens a
\* USB handle.
C8_StubReturnsPlaceholder ==
  \A c \in Consumers :
    handler[c] = "StubHandler"
    => /\ pc[c] = "idle"
       /\ \A i \in 1..Len(returned[c]) : returned[c][i] = config[c]
       /\ config[c] \in DutIds
       /\ lockOwner # c /\ c \notin waiters
       /\ probeLog[c] = <<>> /\ handle[c] = None
       /\ serial[c] = None /\ serial_number[c] = None
       /\ (\A d \in Consumers : handler[d] \in {None, "StubHandler"})
            => \A k \in Cells :
                 /\ removed[k] = <<>>
                 /\ Queue(k) = enqueued[k]
                 /\ k \in DOMAIN DEQUE_MAP => enqueued[k] # <<>>

\* C8's case: a stub configured with a placeholder other than the default,
\* called twice for a start in a sequence that does not alternate, while the
\* queues hold entries.
C8_Witness ==
  \E c \in Consumers :
    /\ handler[c] = "StubHandler"
    /\ config[c] # DefaultDutId
    /\ Len(returned[c]) >= 2
    /\ order[c] = "free"
    /\ op[c] = "stop"
    /\ \E k \in Cells : Queue(k) # <<>>

\* C9: AndroidHandler.TestStart. While the call runs every finished _TryOpen
\* attempt found nothing; the call has returned exactly when an attempt
\* opened a handle: all K earlier attempts found nothing, the value returned
\* is the serial number X of that handle, and serial_number is X. And once a
\* probe of a running TestStart has opened a handle, the call returns.
C9_StartReturnsProbed ==
  /\ [](\A c \in Consumers :
          (handler[c] = "AndroidHandler" /\ op[c] = "start")
          => IF pc[c] = "idle"
             THEN /\ Len(probeLog[c]) >= 1
                  /\ Last(probeLog[c]) \in Devices
                  /\ \A i \in 1..(Len(probeLog[c]) - 1) : probeLog[c][i] = "NotFound"
                  /\ Last(returned[c]) = Last(probeLog[c])
                  /\ serial_number[c] = Last(probeLog[c])
             ELSE \A i \in 1..Len(probeLog[c]) : probeLog[c][i] = "NotFound")
  /\ \A c \in Consumers :
       (handler[c] = "AndroidHandler" /\ op[c] = "start" /\ handle[c] # None)
         ~> (pc[c] = "idle")

\* C9's case: TestStart returned after at least one attempt that found
\* nothing.
C9_Witness ==
  \E c \in Consumers :
    /\ handler[c] = "AndroidHandler" /\ op[c] = "start" /\ pc[c] = "idle"
    /\ Len(probeLog[c]) >= 2
    /\ probeLog[c][1] = "NotFound"

\* C10: AndroidHandler.TestStop after TestStart returned X, the calls
\* alternating. While the call runs serial_number stays X (the target of every
\* probe) and every finished attempt found X; the call has returned exactly
\* when an attempt did not find X, and then serial_number is None. So, with
\* alternating calls, every TestStart begins after a probe that failed to find
\* the previous subject.
C10_StopTracksSubject ==
  \A c \in Consumers :
    (handler[c] = "AndroidHandler" /\ op[c] = "stop" /\ order[c] # "free")
    => /\ returned[c] # <<>>
       /\ IF pc[c] = "idle"
          THEN /\ Len(probeLog[c]) >= 1
               /\ Last(probeLog[c]) = "NotFound"
               /\ \A i \in 1..(Len(probeLog[c]) - 1) : probeLog[c][i] = Last(returned[c])
               /\ serial_number[c] = None
          ELSE /\ \A i \in 1..Len(probeLog[c]) : probeLog[c][i] = Last(returned[c])
               /\ serial_number[c] = Last(returned[c])

\* C10's case: TestStop returned after at least one probe that still found
\* the subject.
C10_Witness ==
  \E c \in Consumers :
    /\ handler[c] = "AndroidHandler" /\ op[c] = "stop" /\ order[c] = "stop"
    /\ pc[c] = "idle"
    /\ Len(probeLog[c]) >= 2
    /\ probeLog[c][1] = Last(returned[c])

\* The step starts the android part of a TestStart of consumer c.
BeginsProbing(c) ==
  /\ op'[c] = "start"
  /\ pc'[c] = "open"
  /\ pc[c] \notin {"open", "sleep"}

\* C11: FrontendAndroidHandler.TestStart. The wait for the frontend is over
\* before the first probe: no handle is open while the call is in
\* _WaitForFrontend, and the android part begins, with no probe made yet, in
\* the very step that took the head of the queue under the lock or cleared the
\* stash. Every value the call returns is the identity the last probe found,
\* never the frontend's value, and no stash is left behind.
C11_CombinedStart ==
  /\ [](\A c \in Consumers :
          handler[c] = "FrontendAndroidHandler"
          => /\ \A i \in 1..Len(returned[c]) : returned[c][i] \in Devices
             /\ InQueueWait(c, "start") => handle[c] = None
             /\ (op[c] = "start" /\ pc[c] = "idle")
                  => /\ probeLog[c] # <<>>
                     /\ Last(returned[c]) = Last(probeLog[c])
                     /\ serial[c] = None)
  /\ [][\A c \in Consumers :
          handler[c] = "FrontendAndroidHandler"
          => /\ BeginsProbing(c)
                  => /\ probeLog'[c] = <<>>
                     /\ \/ /\ pc[c] = "check" /\ lockOwner = c
                           /\ Queue(OwnCell(c)) # <<>>
                           /\ removed'[OwnCell(c)]
                                = Append(removed[OwnCell(c)], Head(Queue(OwnCell(c))))
                        \/ /\ pc[c] = "idle" /\ serial[c] # None
                           /\ serial'[c] = None
                           /\ removed' = removed
             /\ (probeLog'[c] # probeLog[c] /\ probeLog'[c] # <<>>)
                  => pc[c] \in {"open", "finally"}]_vars

\* C11's case: the combined TestStart returned the probed identity after it
\* took the entry "S1" from the queue.
C11_Witness ==
  \E c \in Consumers :
    /\ handler[c] = "FrontendAndroidHandler" /\ op[c] = "start" /\ pc[c] = "idle"
    /\ removed[OwnCell(c)] = <<"S1">>
    /\ returned[c] \in {<<"X">>, <<"Y">>}

\* C12: FrontendAndroidHandler.TestStop is FrontendHandler.TestStop. For both
\* classes the call is at a position of _WaitForFrontend until it returns, and
\* it has returned with the entry it took from the own cell's queue as the
\* stash. For the combined class the call is never at a position of _TryOpen,
\* opens no handle, and no step taken during the call changes the android
\* handler's serial_number or adds a probe; so, with alternating calls, the
\* tracked identity after TestStop is still the one TestStart returned.
C12_CombinedStop ==
  /\ [](\A c \in Consumers :
          (IsFrontend(handler[c]) /\ op[c] = "stop")
          => /\ pc[c] \in {"acquire", "check", "waiting", "woken", "idle"}
             /\ pc[c] = "idle"
                  => /\ removed[OwnCell(c)] # <<>>
                     /\ serial[c] = Last(removed[OwnCell(c)])
             /\ handler[c] = "FrontendAndroidHandler"
                  => /\ handle[c] = None
                     /\ order[c] # "free"
                          => /\ returned[c] # <<>>
                             /\ serial_number[c] = Last(returned[c])
                             /\ Last(probeLog[c]) = Last(returned[c]))
  /\ [][\A c \in Consumers :
          (handler[c] = "FrontendAndroidHandler" /\ op'[c] = "stop")
          => /\ serial_number'[c] = serial_number[c]
             /\ probeLog'[c] = probeLog[c]
             /\ handle'[c] = handle[c]]_vars

\* C12's case: the combined TestStop returned with the stash "S1" and the
\* android handler still tracks the identity the TestStart before it found.
C12_Witness ==
  \E c \in Consumers :
    /\ handler[c] = "FrontendAndroidHandler" /\ op[c] = "stop" /\ pc[c] = "idle"
    /\ order[c] = "stop"
    /\ serial[c] = "S1"
    /\ serial_number[c] \in Devices

\* C13: with alternating calls, every probe of a TestStart of a handler with
\* an android part (AndroidHandler, FrontendAndroidHandler) is made without a
\* target: whenever such a TestStart is about to call Open, serial_number is
\* None, in the first cycle and in every later one.
C13_StartProbesUnfiltered ==
  \A c \in Consumers :
    (HasAndroid(handler[c]) /\ order[c] # "free" /\ op[c] = "start" /\ pc[c] = "open")
    => serial_number[c] = None

\* C14: _WaitForFrontend tolerates wakeups that bring nothing. An entry leaves
\* a cell's deque only in a step of a consumer of that cell that holds the
\* lock and finds the deque non-empty; a consumer woken from wait() takes the
\* lock and is back at the emptiness test; a consumer whose test finds its
\* deque empty waits again and removes nothing, whether the broadcast was for
\* another cell or another consumer took the entry first. No popleft on an
\* empty deque (IndexError) is reachable.
C14_RecheckAfterWake ==
  /\ [](\A c \in Consumers : pc[c] \notin {"pop", "IndexError"})
  /\ [][/\ \A k \in Cells :
            removed'[k] # removed[k]
            => /\ Queue(k) # <<>>
               /\ lockOwner \in Consumers
               /\ OwnCell(lockOwner) = k
               /\ pc[lockOwner] = "check"
         /\ \A c \in Consumers :
              /\ (pc[c] = "woken" /\ pc'[c] # "woken")
                   => (pc'[c] = "check" /\ lockOwner = None /\ lockOwner' = c)
              /\ (pc[c] = "check" /\ pc'[c] # "check" /\ Queue(OwnCell(c)) = <<>>)
                   => /\ pc'[c] = "waiting"
                      /\ c \in waiters'
                      /\ lockOwner' = None
                      /\ removed' = removed]_vars

\* C14's case: two consumers waited on cell 1, the only Enqueue woke both,
\* one of them has taken the entry, and the other, woken, will find the deque
\* empty.
C14_Witness ==
  /\ cell_number["c1"] = cell_number["c2"]
  /\ Len(enqueued[1]) = 1 /\ enqueued[2] = <<>>
  /\ removed[1] = enqueued[1]
  /\ \E c \in Consumers : pc[c] = "woken"

\* The step is a call of TestStart by the idle executor c.
CallsTestStart(c) ==
  /\ pc[c] = "idle"
  /\ op'[c] = "start"
  /\ (pc'[c] # "idle" \/ StartReturned(c))

\* C15: the stash is present whenever self.serial is not None, the empty
\* serial '' included. A TestStart called with a stash, '' or not, does not
\* enter _WaitForFrontend, removes no queue entry and clears the stash; a
\* TestStart called without a stash (no TestStop since the last TestStart, or
\* the first call) enters _WaitForFrontend. So a TestStart is in the queue
\* wait only with no stash, and before the first call there is none.
C15_EmptySerialIsStash ==
  /\ [](\A c \in Consumers :
          /\ InQueueWait(c, "start") => serial[c] = None
          /\ op[c] = None => serial[c] = None)
  /\ [][\A c \in Consumers :
          (IsFrontend(handler[c]) /\ CallsTestStart(c))
          => IF serial[c] \in Serials
             THEN /\ pc'[c] \notin {"acquire", "check", "waiting", "woken", "pop"}
                  /\ handler[c] = "FrontendHandler" => pc'[c] = "idle"
                  /\ removed' = removed
                  /\ DEQUE_MAP' = DEQUE_MAP
                  /\ serial'[c] = None
             ELSE /\ serial[c] = None
                  /\ pc'[c] = "acquire"
                  /\ returned' = returned]_vars

\* C15's case: TestStop took the empty serial '' from the queue, and the
\* TestStart after it returned while the next entry is still in the deque.
C15_Witness ==
  \E c \in Consumers :
    /\ handler[c] = "FrontendHandler" /\ order[c] = "start"
    /\ op[c] = "start" /\ pc[c] = "idle"
    /\ Len(returned[c]) = 2
    /\ Len(removed[OwnCell(c)]) = 2
    /\ removed[OwnCell(c)][2] = ""
    /\ serial[c] = None
    /\ Queue(OwnCell(c)) # <<>>

\* C16: a probe that raises MultipleInterfacesFoundError has the effect of one
\* that raises DeviceNotFoundError. Every step is an iteration of _TryOpen
\* with the ambiguous outcome exactly when it is one with the not-found
\* outcome, so replacing one outcome by the other changes neither the number
\* of attempts, nor the value returned, nor serial_number; and the error never
\* reaches the caller.
C16_AmbiguousAsNotFound ==
  /\ [](\A c \in Consumers : pc[c] # "MultipleInterfacesFoundError")
  /\ [][\A c \in Consumers :
          OpenWith(c, "Ambiguous") <=> OpenWith(c, "NotFound")]_vars

\* C16's case: a TestStart and a TestStop whose _TryOpen found no device to
\* open on either interface, an outcome that both errors produce: the
\* TestStart sleeps before its next attempt, the TestStop has returned.
C16_Witness ==
  \E c \in Consumers :
    /\ handler[c] = "AndroidHandler"
    /\ probeLog[c] # <<>> /\ Last(probeLog[c]) = "NotFound"
    /\ \/ op[c] = "start" /\ pc[c] = "sleep"
       \/ op[c] = "stop" /\ pc[c] = "idle" /\ serial_number[c] = None

\* The step ends a _WaitForFrontend of consumer c called from the facade call
\* o: the deque was popped.
Pops(c, o) ==
  /\ IsFrontend(handler[c])
  /\ op[c] = o
  /\ pc[c] = "check"
  /\ pc'[c] \notin {"check", "waiting"}

\* C17: what each call of the frontend family takes from the queue. A TestStop
\* removes exactly the head of the own cell's deque and makes it the stash; a
\* TestStart with a stash removes nothing and clears the stash; a TestStart
\* without one removes exactly the head and leaves the stash empty. So, for
\* the executor of a cell with alternating calls, at most one serial is
\* pending: between calls the number of entries removed is the number of
\* TestStart calls made, plus one exactly when a TestStop returned last and
\* its entry is the stash.
C17_ConsumptionPerCall ==
  /\ [](\A c \in Consumers :
          (IsFrontend(handler[c]) /\ order[c] # "free" /\ pc[c] = "idle")
          => LET starts == Len(returned[c])
                 taken == Len(removed[OwnCell(c)])
             IN IF op[c] = "stop"
                THEN /\ serial[c] \in Serials
                     /\ serial[c] = Last(removed[OwnCell(c)])
                     /\ taken = starts + 1
                ELSE /\ serial[c] = None
                     /\ taken = starts)
  /\ [][\A c \in Consumers :
          LET k == OwnCell(c)
          IN /\ Pops(c, "stop")
                  => /\ Queue(k) # <<>>
                     /\ removed' = [removed EXCEPT ![k] = Append(@, Head(Queue(k)))]
                     /\ DEQUE_MAP'[k] = Tail(Queue(k))
                     /\ serial'[c] = Head(Queue(k))
             /\ Pops(c, "start")
                  => /\ Queue(k) # <<>>
                     /\ removed' = [removed EXCEPT ![k] = Append(@, Head(Queue(k)))]
                     /\ DEQUE_MAP'[k] = Tail(Queue(k))
                     /\ serial[c] = None /\ serial'[c] = None
             /\ (IsFrontend(handler[c]) /\ CallsTestStart(c) /\ serial[c] # None)
                  => /\ removed' = removed
                     /\ DEQUE_MAP' = DEQUE_MAP
                     /\ serial'[c] = None]_vars

\* C17's case: after two full cycles on one cell three entries were taken,
\* the third being the stash of the second TestStop.
C17_Witness ==
  \E c \in Consumers :
    /\ handler[c] = "FrontendHandler" /\ order[c] = "stop"
    /\ op[c] = "stop" /\ pc[c] = "idle"
    /\ Len(returned[c]) = 2
    /\ Len(removed[OwnCell(c)]) = 3
    /\ serial[c] = removed[OwnCell(c)][3]

\* C18: two consumers racing for the same deques never both get one entry.
\* Per cell the entries removed so far, followed by the ones still queued,
\* are exactly the ones enqueued, so no entry is removed twice and never more
\* are removed than were enqueued. Every step that removes an entry removes
\* the head only and hands it to exactly one consumer, the one holding the
\* lock: to its stash for a TestStop, to its caller for a TestStart; the other
\* consumer gets nothing in that step.
C18_SingleRemoval ==
  /\ [](\A k \in Cells :
          /\ enqueued[k] = removed[k] \o Queue(k)
          /\ Len(removed[k]) <= Len(enqueued[k]))
  /\ [][\A k \in Cells :
          removed'[k] # removed[k]
          => LET takers == {c \in Consumers : Pops(c, "start") \/ Pops(c, "stop")}
             IN /\ Queue(k) # <<>>
                /\ removed'[k] = Append(removed[k], Head(Queue(k)))
                /\ DEQUE_MAP'[k] = Tail(Queue(k))
                /\ takers = {lockOwner}
                /\ OwnCell(lockOwner) = k
                /\ IF op[lockOwner] = "stop"
                   THEN serial'[lockOwner] = Head(Queue(k))
                   ELSE returned'[lockOwner]
                          = Append(returned[lockOwner], Head(Queue(k)))
                /\ \A d \in Consumers \ {lockOwner} :
                     serial'[d] = serial[d] /\ returned'[d] = returned[d]]_vars

\* C18's case: both consumers are on cell 1, two different serials were
\* enqueued there, and each consumer's TestStart returned one of them.
C18_Witness ==
  /\ cell_number["c1"] = cell_number["c2"]
  /\ enqueued[1] = <<"S1", "">>
  /\ removed[1] = enqueued[1]
  /\ \E c, d \in Consumers :
       /\ c # d
       /\ returned[c] = <<"S1">>
       /\ returned[d] = <<"">>

\* C19: consumers blocked in wait() never block a producer. A consumer that
\* waits does not own the lock, and with fair scheduling of the lock steps
\* every Enqueue that was called takes the lock, appends, notifies and
\* returns, however many consumers wait; so producers and consumers never
\* deadlock.
C19_EnqueueCompletes ==
  /\ [](\A c \in Consumers : pc[c] = "waiting" => lockOwner # c)
  /\ \A p \in Producers : (ppc[p] # "idle") ~> (ppc[p] = "idle")

\* C19's case: both consumers are blocked in wait() on the same cell while a
\* producer owns the lock, about to append and notify.
C19_Witness ==
  /\ cell_number["c1"] = cell_number["c2"]
  /\ \A c \in Consumers : pc[c] = "waiting"
  /\ \E p \in Producers : ppc[p] = "locked" /\ lockOwner = p

\* C20: every handle _TryOpen opens is closed before the attempt returns. A
\* handle is open exactly while the thread is between a successful Open and
\* its finally block: never while it sleeps, is between calls or starts the
\* next Open. A handle is opened only by a successful Open step, and the next
\* step of the thread closes it, once. Close is never called without a
\* handle (on None it would raise AttributeError).
C20_HandlesClosed ==
  /\ [](\A c \in Consumers :
          /\ pc[c] # "AttributeError"
          /\ handle[c] # None <=> pc[c] = "finally")
  /\ [][\A c \in Consumers :
          /\ (handle[c] = None /\ handle'[c] # None)
               => (pc[c] = "open" /\ handle'[c] = serial_number'[c])
          /\ (handle[c] # None /\ pc'[c] # pc[c])
               => (handle'[c] = None /\ pc'[c] \in {"sleep", "idle"})
          /\ handle[c] # None => handle'[c] \in {None, handle[c]}]_vars

\* C20's case: a TestStop sleeps between two attempts after one that opened
\* the subject's handle, and the handle is closed.
C20_Witness ==
  \E c \in Consumers :
    /\ HasAndroid(handler[c])
    /\ op[c] = "stop" /\ pc[c] = "sleep"
    /\ probeLog[c] # <<>> /\ Last(probeLog[c]) \in Devices
    /\ handle[c] = None

====
